---- MODULE Spec2Model ----
(***************************************************************************)
(* Model of the Telegram analytics bot: the identifier rewriter            *)
(* (bot.py, swap_video_id_to_creator_id), the NL-to-SQL translator         *)
(* (llm.py, get_sql_from_llm) and the message handler (bot.py,             *)
(* handle_query) with the database helpers of db.py.                       *)
(*                                                                         *)
(* Every coroutine is cut at its awaits: one action per segment between    *)
(* two suspension points.  Each task (one inbound message, or one direct   *)
(* call of get_sql_from_llm) owns a frame holding its locals; the frames   *)
(* are the only per-task state, the videos table and the API key are the   *)
(* process-wide state.                                                     *)
(*                                                                         *)
(* Text is modelled in two ways.  A response content / SQL text is a       *)
(* sequence of one-character strings, so that strip, startswith, endswith  *)
(* and slicing are computed character by character.  A user query is a     *)
(* sequence of whitespace-delimited tokens, a token being either a plain   *)
(* word or a UUID-shaped identifier.  Python's None is NoneStr where a str *)
(* is expected and NoneVal where a database scalar is expected.            *)
(***************************************************************************)
EXTENDS Integers, Sequences, FiniteSets, TLC

VARIABLES task, videos, AGENTPLATFORM_KEY

vars == <<task, videos, AGENTPLATFORM_KEY>>

(***************************************************************************)
(* Bounds of the model.                                                    *)
(***************************************************************************)
\* longest body between the fence markers of a response content
MaxBodyLen == 2
\* longest user query, in tokens
MaxTextLen == 2
\* largest max_retries a direct call of get_sql_from_llm is given
MaxRetriesBound == 3

Tasks == {1, 2}

NoneStr == <<"None">>
NoneVal == "None"

(***************************************************************************)
(* Character strings.                                                      *)
(***************************************************************************)
Whitespace == {" ", "\n"}

\* the backtick character (written BT: the character itself cannot appear in a
\* TLA+ string)
Backtick == "BT"

Fence == <<Backtick, Backtick, Backtick>>
SqlFence == Fence \o <<"s", "q", "l">>
Semicolon == <<";">>
ErrorToken == <<"E", "R", "R", "O", "R">>

LowerChar(c) ==
    CASE c = "S" -> "s"
      [] c = "Q" -> "q"
      [] c = "L" -> "l"
      [] OTHER -> c

Lower(s) == [i \in 1..Len(s) |-> LowerChar(s[i])]

RECURSIVE LStrip(_)
LStrip(s) == IF s # <<>> /\ Head(s) \in Whitespace THEN LStrip(Tail(s)) ELSE s

RECURSIVE RStrip(_)
RStrip(s) ==
    IF s # <<>> /\ s[Len(s)] \in Whitespace
    THEN RStrip(SubSeq(s, 1, Len(s) - 1))
    ELSE s

Strip(s) == RStrip(LStrip(s))

StartsWith(s, p) == Len(s) >= Len(p) /\ SubSeq(s, 1, Len(p)) = p

EndsWith(s, p) == Len(s) >= Len(p) /\ SubSeq(s, Len(s) - Len(p) + 1, Len(s)) = p

\* s[n:]
SliceFrom(s, n) == IF n >= Len(s) THEN <<>> ELSE SubSeq(s, n + 1, Len(s))

\* s[:-n]
SliceDropLast(s, n) == IF n >= Len(s) THEN <<>> ELSE SubSeq(s, 1, Len(s) - n)

\* number of characters sliced off after the SqlFence test (sql_query[5:])
FenceSlice == 5

\* the normalization without its final strip()
Normalize_no_final_strip(content) ==
    LET s0 == Strip(content)
        s1 == IF StartsWith(Lower(s0), SqlFence) THEN SliceFrom(s0, FenceSlice) ELSE s0
        s2 == IF EndsWith(s1, Fence) THEN SliceDropLast(s1, 3) ELSE s1
        s3 == IF EndsWith(s2, Semicolon) THEN SliceDropLast(s2, 1) ELSE s2
    IN  s3

\* llm.py 105-114: the normalization of a response content
Normalize(content) ==
    LET s0 == Strip(content)
        s1 == IF StartsWith(Lower(s0), SqlFence) THEN SliceFrom(s0, FenceSlice) ELSE s0
        s2 == IF EndsWith(s1, Fence) THEN SliceDropLast(s1, 3) ELSE s1
        s3 == IF EndsWith(s2, Semicolon) THEN SliceDropLast(s2, 1) ELSE s2
    IN  Strip(s3)

(***************************************************************************)
(* Inputs: response contents and endpoint responses.                       *)
(***************************************************************************)
Strings(chars, n) == UNION {[1..k -> chars] : k \in 0..n}

BodyChars == {"x", ";", " ", Backtick}

LeadMarkers ==
    {<<>>, SqlFence, Fence \o <<"S", "Q", "L">>, SqlFence \o <<"\n">>, <<" ">> \o SqlFence}

TrailMarkers ==
    {<<>>, Fence, <<"\n">> \o Fence, Fence \o <<"\n">>, Semicolon \o <<"\n">> \o Fence}

\* a bare statement: no marker character, no terminator, no surrounding whitespace
Statements == {s \in Strings({"x", " "}, MaxBodyLen) : s # <<>> /\ Strip(s) = s}

\* a statement wrapped in an SQL code fence, with or without the terminator and
\* with or without line breaks after the opening and before the closing marker
Fenced(stmt, semi, nl) ==
    SqlFence \o (IF nl THEN <<"\n">> ELSE <<>>) \o stmt \o (IF semi THEN Semicolon ELSE <<>>)
        \o (IF nl THEN <<"\n">> ELSE <<>>) \o Fence

\* the contents a call of get_sql_from_llm is answered with
Contents ==
    {l \o b \o t : l \in LeadMarkers, b \in Strings(BodyChars, MaxBodyLen), t \in TrailMarkers}
        \cup {Fenced(st, semi, nl) : st \in Statements, semi \in BOOLEAN, nl \in BOOLEAN}
        \cup {ErrorToken}

\* a few of them: a bare and a fenced statement, the sentinel, empty texts
HandlerContents ==
    {<<"x">>, Fenced(<<"x">>, TRUE, TRUE), ErrorToken, ErrorToken \o Semicolon, <<>>, Semicolon}

ErrorStatuses == {400, 404, 429, 500, 501, 502, 503, 504}

NoResponse == [exc |-> "none", status |-> 0, body |-> "none", content |-> <<>>]

\* what one client.post can produce: a completion, a 2xx body without
\* choices/message/content, an error status, or no response at all
ResponsesWith(contents) ==
    {[exc |-> "none", status |-> 200, body |-> "completion", content |-> c] : c \in contents}
        \cup {[exc |-> "none", status |-> 200, body |-> "other", content |-> <<>>]}
        \cup {[exc |-> "none", status |-> s, body |-> "none", content |-> <<>>] : s \in ErrorStatuses}
        \cup {[exc |-> e, status |-> 0, body |-> "none", content |-> <<>>] :
                e \in {"TimeoutException", "ConnectError"}}

(***************************************************************************)
(* Frames.                                                                 *)
(***************************************************************************)
DefaultMaxRetries == 3
DefaultInitialBackoff == 5
BackoffFactor == 2

IdleFrame ==
    [pc |-> "off", caller |-> "none",
     user_query |-> NoneStr, modified_query |-> NoneStr, swap_return |-> NoneStr,
     entity_id_str |-> NoneVal, lookup |-> "none", creator_id_from_video |-> NoneVal,
     open_conns |-> {}, opened |-> 0, queries |-> <<>>,
     max_retries |-> 0, initial_backoff |-> 0, attempt |-> 0, backoff |-> 0,
     schema_file |-> "unread", schema |-> NoneVal,
     requests |-> 0, sleeps |-> <<>>, last_response |-> NoResponse,
     sql_query |-> NoneStr, db_conn |-> "unset", result |-> NoneVal,
     replies |-> <<>>, raised |-> "none", propagated |-> FALSE]

(***************************************************************************)
(* bot.py 120-122: the except clause of handle_query.                      *)
(***************************************************************************)
\* an except clause that logs and re-raises instead of answering
handle_query_except_reraise(f, origin) ==
    [f EXCEPT !.raised = origin, !.propagated = TRUE, !.pc = "done"]

handle_query_except(f, origin) ==
    [f EXCEPT !.raised = origin,
              !.replies = Append(@, "internal_error"),
              !.pc = "done"]

\* an exception leaves the function `origin` of frame f
Raise(f, origin) ==
    IF f.caller = "handle_query"
    THEN handle_query_except(f, origin)
    ELSE [f EXCEPT !.raised = origin, !.propagated = TRUE, !.pc = "done"]

(***************************************************************************)
(* llm.py 61-134: get_sql_from_llm.                                        *)
(***************************************************************************)
SchemaFiles == {"present", "empty", "missing", "unreadable"}

\* llm.py 52-59
get_schema(file) == IF file = "present" THEN "schema" ELSE ""

\* the return of get_sql_from_llm to its caller
llm_return(f, value) ==
    [f EXCEPT !.sql_query = value,
              !.pc = IF f.caller = "handle_query" THEN "hq_check_sql" ELSE "done"]

\* variant: the schema text is not tested before the loop is entered
get_sql_from_llm_enter_no_schema_check(f, key, file) ==
    IF key = ""
    THEN llm_return(f, NoneStr)
    ELSE IF file = "unreadable"
    THEN Raise([f EXCEPT !.schema_file = file], "get_sql_from_llm")
    ELSE LET g == [f EXCEPT !.schema_file = file, !.schema = get_schema(file)]
         IN  IF 0 <= g.max_retries
             THEN [g EXCEPT !.attempt = 0, !.backoff = g.initial_backoff, !.pc = "llm_post"]
             ELSE llm_return([g EXCEPT !.attempt = 0, !.backoff = g.initial_backoff], NoneStr)

\* llm.py 74-98: the checks before the first request
get_sql_from_llm_enter(f, key, file) ==
    IF key = ""
    THEN llm_return(f, NoneStr)
    ELSE IF file = "unreadable"
    THEN Raise([f EXCEPT !.schema_file = file], "get_sql_from_llm")
    ELSE LET g == [f EXCEPT !.schema_file = file, !.schema = get_schema(file)]
         IN  IF g.schema = ""
             THEN llm_return(g, NoneStr)
             ELSE IF 0 <= g.max_retries
             THEN [g EXCEPT !.attempt = 0, !.backoff = g.initial_backoff, !.pc = "llm_post"]
             ELSE llm_return([g EXCEPT !.attempt = 0, !.backoff = g.initial_backoff], NoneStr)

RetryStatuses == {429, 500, 502, 503, 504}

\* a retry list that lost its last entry
is_retry_status_without_504(status) == status \in RetryStatuses \ {504}

\* a retry test that takes every error status for transient
is_retry_status_any_error(status) == status >= 400

\* llm.py 118
is_retry_status(status) == status \in RetryStatuses

\* a budget test that gives up one retry early
budget_exhausted_one_early(f) == f.attempt >= f.max_retries - 1

\* llm.py 119
budget_exhausted(f) == f.attempt = f.max_retries

\* llm.py 102: raise_for_status
raises_for_status(status) == status >= 400

\* variant: a request that fails without a status is retried like a transient error
get_sql_from_llm_post_retry_any_failure(f, resp) ==
    LET g == [f EXCEPT !.requests = @ + 1, !.last_response = resp]
    IN  IF resp.exc # "none" \/ (raises_for_status(resp.status) /\ is_retry_status(resp.status))
        THEN IF budget_exhausted(g)
             THEN llm_return(g, NoneStr)
             ELSE [g EXCEPT !.pc = "llm_sleep"]
        ELSE IF raises_for_status(resp.status) \/ resp.body # "completion"
        THEN llm_return(g, NoneStr)
        ELSE llm_return(g, Normalize(resp.content))

\* llm.py 101-132: one request and what follows it up to the next await
get_sql_from_llm_post(f, resp) ==
    LET g == [f EXCEPT !.requests = @ + 1, !.last_response = resp]
    IN  IF resp.exc # "none"
        THEN llm_return(g, NoneStr)
        ELSE IF raises_for_status(resp.status)
        THEN IF is_retry_status(resp.status)
             THEN IF budget_exhausted(g)
                  THEN llm_return(g, NoneStr)
                  ELSE [g EXCEPT !.pc = "llm_sleep"]
             ELSE llm_return(g, NoneStr)
        ELSE IF resp.body # "completion"
        THEN llm_return(g, NoneStr)
        ELSE llm_return(g, Normalize(resp.content))

\* llm.py 124-126, then the loop test of line 99 and the return of line 134
\* variant: the delay is doubled before the sleep instead of after it
get_sql_from_llm_sleep_doubles_first(f) ==
    LET g == [f EXCEPT !.sleeps = Append(@, f.backoff * BackoffFactor),
                       !.attempt = @ + 1,
                       !.backoff = @ * BackoffFactor]
    IN  IF g.attempt <= g.max_retries
        THEN [g EXCEPT !.pc = "llm_post"]
        ELSE llm_return(g, NoneStr)

\* variant: the attempt counter is not advanced after the sleep
get_sql_from_llm_sleep_no_increment(f) ==
    [f EXCEPT !.sleeps = Append(@, f.backoff),
              !.backoff = @ * BackoffFactor,
              !.pc = "llm_post"]

get_sql_from_llm_sleep(f) ==
    LET g == [f EXCEPT !.sleeps = Append(@, f.backoff),
                       !.attempt = @ + 1,
                       !.backoff = @ * BackoffFactor]
    IN  IF g.attempt <= g.max_retries
        THEN [g EXCEPT !.pc = "llm_post"]
        ELSE llm_return(g, NoneStr)

\* the responses of the endpoint to a direct call, with every content
AllResponses == ResponsesWith(Contents)

\* the responses of the endpoint with the few contents handle_query is run on
FewResponses == ResponsesWith(HandlerContents)

LlmEnter(t) ==
    /\ task[t].pc = "llm_enter"
    /\ \E file \in SchemaFiles :
          task' = [task EXCEPT ![t] = get_sql_from_llm_enter(task[t], AGENTPLATFORM_KEY, file)]
    /\ UNCHANGED <<videos, AGENTPLATFORM_KEY>>

LlmPost(t, responses) ==
    /\ task[t].pc = "llm_post"
    /\ \E resp \in responses :
          task' = [task EXCEPT ![t] = get_sql_from_llm_post(task[t], resp)]
    /\ UNCHANGED <<videos, AGENTPLATFORM_KEY>>

\* variant: the attempt counter and the delay are kept once for all calls, so a
\* sleep of one call advances them for every call
LlmSleep_shared_counters(t) ==
    /\ task[t].pc = "llm_sleep"
    /\ task' = [u \in Tasks |->
                  IF u = t
                  THEN get_sql_from_llm_sleep(task[t])
                  ELSE [task[u] EXCEPT !.attempt = @ + 1, !.backoff = @ * BackoffFactor]]
    /\ UNCHANGED <<videos, AGENTPLATFORM_KEY>>

LlmSleep(t) ==
    /\ task[t].pc = "llm_sleep"
    /\ task' = [task EXCEPT ![t] = get_sql_from_llm_sleep(task[t])]
    /\ UNCHANGED <<videos, AGENTPLATFORM_KEY>>

(***************************************************************************)
(* User queries and the videos table.                                      *)
(***************************************************************************)
\* tokens matching [a-f\d]{8}-[a-f\d]{4}-[a-f\d]{4}-[a-f\d]{4}-[a-f\d]{12}
UuidTokens == {"u1", "u2"}

Tokens == {"w"} \cup UuidTokens

Texts == Strings(Tokens, MaxTextLen)

\* videos.id -> videos.creator_id: a creator's UUID, NULL, or no such row
VideoTables == [UuidTokens -> UuidTokens \cup {"c1", "NULL", "NoRow"}]

Keys == {"", "key"}

\* the values a generated query can yield
ScalarValues == {"0", "42"}

\* variant: the last UUID-shaped token of the query
last_match(query) ==
    LET hits == {i \in 1..Len(query) : query[i] \in UuidTokens}
    IN  IF hits = {} THEN NoneVal
        ELSE query[CHOOSE i \in hits : \A j \in hits : j <= i]

\* bot.py 30: re.search, the first UUID-shaped token of the query
first_match(query) ==
    LET hits == {i \in 1..Len(query) : query[i] \in UuidTokens}
    IN  IF hits = {} THEN NoneVal
        ELSE query[CHOOSE i \in hits : \A j \in hits : i <= j]

\* a replacement of the first occurrence only
replace_first_only(query, old, new) ==
    [i \in 1..Len(query) |->
        IF query[i] = old /\ (\A j \in 1..(i - 1) : query[j] # old) THEN new ELSE query[i]]

\* str.replace(old, new): every occurrence
replace(query, old, new) ==
    [i \in 1..Len(query) |-> IF query[i] = old THEN new ELSE query[i]]

\* a test against the empty string only, which lets None through
truthy_not_empty(v) == v # ""

\* Python truthiness of a database scalar
truthy(v) == v \notin {NoneVal, "", "0"}

\* what conn.fetchval yields for SELECT creator_id FROM videos WHERE id = entity
fetch_creator(table, entity) ==
    IF table[entity] \in {"NULL", "NoRow"} THEN NoneVal ELSE table[entity]

\* the outcomes of one fetchval call
Outcomes(values) ==
    {[ok |-> TRUE, value |-> v] : v \in values} \cup {[ok |-> FALSE, value |-> NoneVal]}

\* db.py 40-60
execute_query(outcome) == IF outcome.ok THEN outcome.value ELSE NoneVal

(***************************************************************************)
(* bot.py 24-59: swap_video_id_to_creator_id.                              *)
(***************************************************************************)
\* the return of swap_video_id_to_creator_id to handle_query (bot.py 93-98),
\* which then calls get_sql_from_llm with its default arguments
swap_return_to_caller(f, value) ==
    [f EXCEPT !.modified_query = value,
              !.max_retries = DefaultMaxRetries,
              !.initial_backoff = DefaultInitialBackoff,
              !.pc = "llm_enter"]

\* bot.py 86-93 and 30-37
swap_search(f) ==
    IF f.user_query = NoneStr
    THEN Raise(f, "swap_video_id_to_creator_id")
    ELSE IF first_match(f.user_query) = NoneVal
    THEN swap_return_to_caller(f, f.user_query)
    ELSE [f EXCEPT !.entity_id_str = first_match(f.user_query), !.pc = "swap_connect"]

\* bot.py 37-40 with db.py 16-38
swap_connect(f, connected) ==
    IF connected
    THEN [f EXCEPT !.open_conns = @ \cup {"lookup"}, !.opened = @ + 1, !.pc = "swap_lookup"]
    ELSE swap_return_to_caller([f EXCEPT !.lookup = "no_conn"], f.user_query)

\* bot.py 42-55
swap_lookup(f, outcome) ==
    LET creator == execute_query(outcome)
    IN  [f EXCEPT !.creator_id_from_video = creator,
                  !.lookup = IF outcome.ok THEN "ok" ELSE "failed",
                  !.queries = Append(@, [conn |-> "lookup", text |-> <<f.entity_id_str>>]),
                  !.swap_return = IF truthy(creator)
                                  THEN replace(f.user_query, f.entity_id_str, creator)
                                  ELSE f.user_query,
                  !.pc = "swap_close"]

\* a close that is reached on the replacing path only
swap_close_only_when_found(f) ==
    swap_return_to_caller(
        [f EXCEPT !.open_conns = IF truthy(f.creator_id_from_video) THEN @ \ {"lookup"} ELSE @],
        f.swap_return)

\* bot.py 55-59; Connection.close() is taken to complete
swap_close(f) ==
    swap_return_to_caller([f EXCEPT !.open_conns = @ \ {"lookup"}], f.swap_return)

(***************************************************************************)
(* bot.py 75-122: handle_query.                                            *)
(***************************************************************************)
\* message.answer(text), after which the handler returns; delivery is the
\* front end's part and is taken to succeed
answer_and_return(f, text) ==
    [f EXCEPT !.replies = Append(@, text), !.pc = "done"]

\* variant: the translation is tested against None only
handle_query_check_sql_none_only(f) ==
    IF f.sql_query = NoneStr
    THEN answer_and_return(f, "not_understood")
    ELSE [f EXCEPT !.pc = "hq_connect"]

\* a test of the translation that forgets the sentinel
handle_query_check_sql_no_sentinel(f) ==
    IF f.sql_query = NoneStr \/ f.sql_query = <<>>
    THEN answer_and_return(f, "not_understood")
    ELSE [f EXCEPT !.pc = "hq_connect"]

\* bot.py 99-105
handle_query_check_sql(f) ==
    IF f.sql_query = NoneStr \/ f.sql_query = <<>> \/ f.sql_query = ErrorToken
    THEN answer_and_return(f, "not_understood")
    ELSE [f EXCEPT !.pc = "hq_connect"]

\* bot.py 105-110 with db.py 16-38
handle_query_connect(f, connected) ==
    IF connected
    THEN [f EXCEPT !.db_conn = "conn",
                   !.open_conns = @ \cup {"exec"},
                   !.opened = @ + 1,
                   !.pc = "hq_execute"]
    ELSE answer_and_return([f EXCEPT !.db_conn = NoneVal], "no_connection")

\* bot.py 110-111
handle_query_execute(f, outcome) ==
    [f EXCEPT !.result = execute_query(outcome),
              !.queries = Append(@, [conn |-> "exec", text |-> f.sql_query]),
              !.pc = "hq_close"]

\* variant: the result is tested for truth instead of against None
handle_query_close_truthy(f) ==
    LET g == [f EXCEPT !.open_conns = @ \ {"exec"}]
    IN  IF truthy(g.result)
        THEN answer_and_return(g, g.result)
        ELSE answer_and_return(g, "no_result")

\* bot.py 111-118
handle_query_close(f) ==
    LET g == [f EXCEPT !.open_conns = @ \ {"exec"}]
    IN  IF g.result # NoneVal
        THEN answer_and_return(g, g.result)
        ELSE answer_and_return(g, "no_result")

HqStart(t) ==
    /\ task[t].pc = "hq_start"
    /\ task' = [task EXCEPT ![t] = swap_search(task[t])]
    /\ UNCHANGED <<videos, AGENTPLATFORM_KEY>>

SwapConnect(t) ==
    /\ task[t].pc = "swap_connect"
    /\ \E connected \in BOOLEAN :
          task' = [task EXCEPT ![t] = swap_connect(task[t], connected)]
    /\ UNCHANGED <<videos, AGENTPLATFORM_KEY>>

SwapLookup(t) ==
    /\ task[t].pc = "swap_lookup"
    /\ \E outcome \in Outcomes({fetch_creator(videos, task[t].entity_id_str)}) :
          task' = [task EXCEPT ![t] = swap_lookup(task[t], outcome)]
    /\ UNCHANGED <<videos, AGENTPLATFORM_KEY>>

SwapClose(t) ==
    /\ task[t].pc = "swap_close"
    /\ task' = [task EXCEPT ![t] = swap_close(task[t])]
    /\ UNCHANGED <<videos, AGENTPLATFORM_KEY>>

HqCheckSql(t) ==
    /\ task[t].pc = "hq_check_sql"
    /\ task' = [task EXCEPT ![t] = handle_query_check_sql(task[t])]
    /\ UNCHANGED <<videos, AGENTPLATFORM_KEY>>

HqConnect(t) ==
    /\ task[t].pc = "hq_connect"
    /\ \E connected \in BOOLEAN :
          task' = [task EXCEPT ![t] = handle_query_connect(task[t], connected)]
    /\ UNCHANGED <<videos, AGENTPLATFORM_KEY>>

HqExecute(t) ==
    /\ task[t].pc = "hq_execute"
    /\ \E outcome \in Outcomes(ScalarValues \cup {NoneVal}) :
          task' = [task EXCEPT ![t] = handle_query_execute(task[t], outcome)]
    /\ UNCHANGED <<videos, AGENTPLATFORM_KEY>>

HqClose(t) ==
    /\ task[t].pc = "hq_close"
    /\ task' = [task EXCEPT ![t] = handle_query_close(task[t])]
    /\ UNCHANGED <<videos, AGENTPLATFORM_KEY>>

(***************************************************************************)
(* Specifications.                                                         *)
(***************************************************************************)
InitialBackoffs == {1, DefaultInitialBackoff}

NoVideos == [u \in UuidTokens |-> "NoRow"]

\* one inbound message, handled by handle_query
Init ==
    /\ videos \in VideoTables
    /\ AGENTPLATFORM_KEY \in Keys
    /\ \E text \in Texts \cup {NoneStr} :
          task = [t \in Tasks |->
                    IF t = 1
                    THEN [IdleFrame EXCEPT !.pc = "hq_start",
                                           !.caller = "handle_query",
                                           !.user_query = text]
                    ELSE IdleFrame]

Next ==
    \E t \in Tasks :
        \/ HqStart(t)
        \/ SwapConnect(t)
        \/ SwapLookup(t)
        \/ SwapClose(t)
        \/ LlmEnter(t)
        \/ LlmPost(t, FewResponses)
        \/ LlmSleep(t)
        \/ HqCheckSql(t)
        \/ HqConnect(t)
        \/ HqExecute(t)
        \/ HqClose(t)

Spec == Init /\ [][Next]_vars

\* one direct call get_sql_from_llm(user_query, max_retries, initial_backoff)
InitLLM ==
    /\ videos = NoVideos
    /\ AGENTPLATFORM_KEY \in Keys
    /\ \E m \in (-1)..MaxRetriesBound, b \in InitialBackoffs :
          task = [t \in Tasks |->
                    IF t = 1
                    THEN [IdleFrame EXCEPT !.pc = "llm_enter",
                                           !.caller = "direct",
                                           !.user_query = <<"w">>,
                                           !.modified_query = <<"w">>,
                                           !.max_retries = m,
                                           !.initial_backoff = b]
                    ELSE IdleFrame]

NextLLM ==
    \E t \in Tasks :
        \/ LlmEnter(t)
        \/ LlmPost(t, AllResponses)
        \/ LlmSleep(t)

SpecLLM == InitLLM /\ [][NextLLM]_vars

\* the direct call again, answered with the few contents, and fair: a request
\* is answered within the client's timeout and a sleep ends, so a step that
\* can be taken is taken
NextRetry ==
    \E t \in Tasks :
        \/ LlmEnter(t)
        \/ LlmPost(t, FewResponses)
        \/ LlmSleep(t)

FairSpecRetry == InitLLM /\ [][NextRetry]_vars /\ WF_vars(NextRetry)

(***************************************************************************)
(* Vocabulary of the properties.                                           *)
(***************************************************************************)
DirectCalls == {t \in Tasks : task[t].caller = "direct"}

Handled == {t \in Tasks : task[t].caller = "handle_query"}

\* the call of get_sql_from_llm of frame f has returned
LlmReturned(f) == f.pc \notin {"off", "hq_start", "swap_connect", "swap_lookup", "swap_close",
                               "llm_enter", "llm_post", "llm_sleep"}

IsCompletion(resp) == resp.exc = "none" /\ resp.status = 200 /\ resp.body = "completion"

IsTransient(resp) == resp.exc = "none" /\ resp.status \in RetryStatuses

\* the transient-error responses frame f has received: every response but the
\* last is one, since any other response ends the call
TransientsReceived(f) ==
    IF f.requests = 0 THEN 0
    ELSE IF IsTransient(f.last_response) THEN f.requests ELSE f.requests - 1

(***************************************************************************)
(* C1.  A call answered with k <= max_retries transient errors has not     *)
(* given up and asks again; when a completion follows, the call returns    *)
(* its normalized content.  A call answered with more than max_retries     *)
(* transient errors in a row returns None.  Every call returns.            *)
(***************************************************************************)
C1_RetrySafety ==
    \A t \in DirectCalls :
        LET f == task[t] IN
        /\ (IsTransient(f.last_response) /\ TransientsReceived(f) <= f.max_retries)
              => f.pc \in {"llm_sleep", "llm_post"}
        /\ (LlmReturned(f) /\ IsCompletion(f.last_response))
              => /\ f.sql_query = Normalize(f.last_response.content)
                 /\ TransientsReceived(f) <= f.max_retries
        /\ (f.requests > 0 /\ TransientsReceived(f) > f.max_retries)
              => LlmReturned(f) /\ f.sql_query = NoneStr

C1_EventualResult ==
    /\ []C1_RetrySafety
    /\ \A t \in Tasks : (task[t].caller = "direct") ~> LlmReturned(task[t])

C1_Witness ==
    \E t \in DirectCalls :
        /\ LlmReturned(task[t])
        /\ IsCompletion(task[t].last_response)
        /\ task[t].max_retries = DefaultMaxRetries
        /\ TransientsReceived(task[t]) = task[t].max_retries
        /\ task[t].sql_query = <<"x">>

(***************************************************************************)
(* C2.  A completion whose content is a statement wrapped in the SQL code  *)
(* fence, with or without a terminator, is returned as the bare statement. *)
(***************************************************************************)
C2_FencedStatementReturnedBare ==
    \A t \in DirectCalls : \A st \in Statements, semi \in BOOLEAN, nl \in BOOLEAN :
        (/\ LlmReturned(task[t])
         /\ IsCompletion(task[t].last_response)
         /\ task[t].last_response.content = Fenced(st, semi, nl))
            => task[t].sql_query = st

(***************************************************************************)
(* C3.  As claimed: a call fails right after a 429 or any 5xx status only  *)
(* when its retries are used up.  As amended: the same for the statuses    *)
(* 429, 500, 502, 503 and 504, each of which is otherwise followed by one  *)
(* backoff sleep and another request.                                      *)
(***************************************************************************)
IsRateLimitOr5xx(resp) ==
    resp.exc = "none" /\ (resp.status = 429 \/ (resp.status >= 500 /\ resp.status <= 599))

IsPermanent(resp) ==
    resp.exc = "none" /\ resp.status >= 400 /\ resp.status <= 499 /\ resp.status # 429

C4_PermanentErrorFailsAtOnce ==
    \A t \in DirectCalls :
        LET f == task[t] IN
        IsPermanent(f.last_response)
            => /\ LlmReturned(f)
               /\ f.sql_query = NoneStr
               /\ f.requests = f.attempt + 1
               /\ Len(f.sleeps) = f.attempt

C4_Witness ==
    \E t \in DirectCalls :
        /\ IsPermanent(task[t].last_response)
        /\ task[t].max_retries = DefaultMaxRetries
        /\ task[t].attempt = 0
        /\ task[t].requests = 1
        /\ task[t].sleeps = <<>>

(***************************************************************************)
(* C5.  As claimed: normalizing a returned text again yields the same      *)
(* text.  As amended: it does exactly when the returned text neither       *)
(* starts with the SQL fence marker nor ends with the fence marker or with *)
(* the terminator.                                                         *)
(***************************************************************************)
Residue(r) == StartsWith(Lower(r), SqlFence) \/ EndsWith(r, Fence) \/ EndsWith(r, Semicolon)

C5_NormalizeIdempotent ==
    \A t \in DirectCalls :
        (LlmReturned(task[t]) /\ IsCompletion(task[t].last_response))
            => Normalize(task[t].sql_query) = task[t].sql_query

C5_IdempotentWithoutResidue ==
    \A t \in DirectCalls :
        (LlmReturned(task[t]) /\ IsCompletion(task[t].last_response))
            => (Normalize(task[t].sql_query) = task[t].sql_query
                    <=> ~Residue(task[t].sql_query))

C5_Witness ==
    \E t \in DirectCalls :
        /\ LlmReturned(task[t])
        /\ IsCompletion(task[t].last_response)
        /\ task[t].last_response.content # task[t].sql_query
        /\ task[t].sql_query # <<>>
        /\ ~Residue(task[t].sql_query)

(***************************************************************************)
(* C6.  A handled message gets exactly one reply on every path and no      *)
(* exception leaves handle_query: never more than one reply, the handler   *)
(* has ended exactly when the reply is sent, and a handler that has not    *)
(* ended can always take its next step.                                    *)
(***************************************************************************)
C6_ExactlyOneReply ==
    \A t \in Handled :
        LET f == task[t] IN
        /\ Len(f.replies) <= 1
        /\ ~f.propagated
        /\ (f.pc = "done") <=> (Len(f.replies) = 1)
        /\ (f.pc # "done") => ENABLED Next

C6_Witness ==
    \E t \in Handled :
        /\ task[t].pc = "done"
        /\ task[t].raised = "get_sql_from_llm"
        /\ task[t].opened = 1
        /\ task[t].replies = <<"internal_error">>

(***************************************************************************)
(* C7.  As claimed: when the query contains a UUID that is the id of a     *)
(* video with creator X and the lookup backend is reachable, the rewriter  *)
(* returns the query with every occurrence of that UUID replaced by X, so  *)
(* that X occurs in it and the UUID no longer does (X being another        *)
(* identifier than the UUID).  As amended: the same for the first          *)
(* UUID-shaped token of the query only.                                    *)
(***************************************************************************)
SwapReturned(f) ==
    /\ f.pc \notin {"off", "hq_start", "swap_connect", "swap_lookup", "swap_close"}
    /\ f.raised # "swap_video_id_to_creator_id"

Occurs(tok, text) == \E i \in 1..Len(text) : text[i] = tok

IsVideo(u) == videos[u] \notin {"NULL", "NoRow"}

Replaced(text, out, u, x) ==
    /\ Len(out) = Len(text)
    /\ \A i \in 1..Len(text) : out[i] = IF text[i] = u THEN x ELSE text[i]

C7_AnyVideoUuidReplaced ==
    \A t \in Handled : \A u \in UuidTokens :
        LET f == task[t] IN
        (/\ SwapReturned(f)
         /\ f.user_query # NoneStr
         /\ f.lookup = "ok"
         /\ Occurs(u, f.user_query)
         /\ IsVideo(u)
         /\ videos[u] # u)
            => /\ Replaced(f.user_query, f.modified_query, u, videos[u])
               /\ Occurs(videos[u], f.modified_query)
               /\ ~Occurs(u, f.modified_query)

C7_FirstVideoUuidReplaced ==
    \A t \in Handled : \A u \in UuidTokens :
        LET f == task[t] IN
        (/\ SwapReturned(f)
         /\ f.user_query # NoneStr
         /\ f.lookup = "ok"
         /\ u = first_match(f.user_query)
         /\ IsVideo(u))
            => /\ Replaced(f.user_query, f.modified_query, u, videos[u])
               /\ Occurs(videos[u], f.modified_query)
               /\ (videos[u] # u => ~Occurs(u, f.modified_query))

C7_Witness ==
    \E t \in Handled :
        /\ SwapReturned(task[t])
        /\ task[t].lookup = "ok"
        /\ task[t].user_query = <<"u1", "u1">>
        /\ videos["u1"] = "c1"
        /\ task[t].modified_query = <<"c1", "c1">>

(***************************************************************************)
(* C8.  The rewriter raises nothing and returns the query unchanged when   *)
(* the query holds no UUID-shaped token, when the connection cannot be     *)
(* opened, when the lookup query fails, when the UUID is no video's id and *)
(* when the creator id of the video is NULL.                               *)
(***************************************************************************)
NoCreatorFound(f) ==
    \/ first_match(f.user_query) = NoneVal
    \/ f.lookup \in {"no_conn", "failed"}
    \/ ~IsVideo(first_match(f.user_query))

C8_FailOpen ==
    \A t \in Handled :
        LET f == task[t] IN
        f.user_query # NoneStr
            => /\ f.raised # "swap_video_id_to_creator_id"
               /\ (SwapReturned(f) /\ NoCreatorFound(f)) => f.modified_query = f.user_query

C8_Witness ==
    \E t \in Handled :
        /\ SwapReturned(task[t])
        /\ task[t].lookup = "failed"
        /\ task[t].user_query = <<"w", "u2">>
        /\ videos["u2"] = "c1"
        /\ task[t].modified_query = task[t].user_query

(***************************************************************************)
(* C9.  When the endpoint returns the sentinel word ERROR, the translation *)
(* is that word, no connection is opened for it, and the reply is the      *)
(* could-not-understand message, never the internal-error message.         *)
(***************************************************************************)
C9_SentinelNotUnderstood ==
    \A t \in Handled :
        LET f == task[t] IN
        (/\ LlmReturned(f)
         /\ IsCompletion(f.last_response)
         /\ f.last_response.content = ErrorToken)
            => /\ f.sql_query = ErrorToken
               /\ f.pc \in {"hq_check_sql", "done"}
               /\ f.pc = "done" => f.replies = <<"not_understood">>
               /\ ~Occurs("internal_error", f.replies)

C9_Witness ==
    \E t \in Handled :
        /\ task[t].pc = "done"
        /\ IsCompletion(task[t].last_response)
        /\ task[t].last_response.content = ErrorToken
        /\ task[t].requests = 2
        /\ task[t].replies = <<"not_understood">>

(***************************************************************************)
(* C10.  The lookup connection is closed before the rewriter returns and   *)
(* the execution connection before the reply: no connection is open once   *)
(* a reply is sent or the handler has ended, and the two are never open    *)
(* together.                                                               *)
(***************************************************************************)
C10_ConnectionsClosed ==
    \A t \in Handled :
        LET f == task[t] IN
        /\ (f.replies # <<>> \/ f.pc = "done") => f.open_conns = {}
        /\ (f.pc \notin {"swap_lookup", "swap_close"}) => "lookup" \notin f.open_conns
        /\ (f.pc \notin {"hq_execute", "hq_close"}) => "exec" \notin f.open_conns

C10_Witness ==
    \E t \in Handled :
        /\ task[t].pc = "done"
        /\ task[t].opened = 2
        /\ task[t].lookup = "failed"
        /\ task[t].result = NoneVal
        /\ task[t].open_conns = {}

(***************************************************************************)
(* Two messages handled concurrently: both handlers are started and their  *)
(* segments between suspension points interleave in every order.           *)
(***************************************************************************)
ConcTexts == {<<"w">>, <<"u1">>}

ConcVideos == {[u \in UuidTokens |-> IF u = "u1" THEN c ELSE "NoRow"] : c \in {"c1", "NoRow"}}

ConcResponses ==
    {r \in ResponsesWith({<<"x">>, ErrorToken}) :
        r.status \in {0, 200, 400, 429} /\ r.exc # "ConnectError"}

InitConc ==
    /\ videos \in ConcVideos
    /\ AGENTPLATFORM_KEY \in Keys
    /\ \E texts \in [Tasks -> ConcTexts] :
          task = [t \in Tasks |->
                    [IdleFrame EXCEPT !.pc = "hq_start",
                                      !.caller = "handle_query",
                                      !.user_query = texts[t]]]

NextConc ==
    \E t \in Tasks :
        \/ HqStart(t)
        \/ SwapConnect(t)
        \/ SwapLookup(t)
        \/ SwapClose(t)
        \/ LlmEnter(t)
        \/ LlmPost(t, ConcResponses)
        \/ LlmSleep(t)
        \/ HqCheckSql(t)
        \/ HqConnect(t)
        \/ HqExecute(t)
        \/ HqClose(t)

SpecConc == InitConc /\ [][NextConc]_vars

SendingEntered(f, g) ==
    (g.pc = "llm_post" /\ f.pc # "llm_post") =>
        \/ f.pc = "llm_enter" /\ g.requests = 0
        \/ f.pc = "llm_sleep" /\ IsTransient(f.last_response) /\ g.requests = Len(g.sleeps)

RECURSIVE Pow2(_)
Pow2(n) == IF n = 0 THEN 1 ELSE 2 * Pow2(n - 1)

\* the call of frame f is between entering the retry loop and returning
InLoop(f) == f.pc \in {"llm_post", "llm_sleep"}

(***************************************************************************)
(* C12.  The n-th backoff sleep of a call lasts initial_backoff * 2^(n-1). *)
(* Exactly one sleep precedes each retry: while a request is in flight the *)
(* sleeps so far number the requests already answered, and a call never    *)
(* sleeps more than max_retries times.  A call whose last permitted        *)
(* attempt failed with a transient error has returned None after           *)
(* max_retries sleeps, one fewer than its requests.                        *)
(***************************************************************************)
C12_BackoffSequence ==
    \A t \in DirectCalls :
        LET f == task[t] IN
        /\ \A n \in 1..Len(f.sleeps) : f.sleeps[n] = f.initial_backoff * Pow2(n - 1)
        /\ f.sleeps # <<>> => Len(f.sleeps) <= f.max_retries
        /\ f.pc = "llm_post" => Len(f.sleeps) = f.requests
        /\ f.pc = "llm_sleep" => Len(f.sleeps) = f.requests - 1
        /\ (f.pc = "done" /\ f.requests > 0) => Len(f.sleeps) = f.requests - 1
        /\ (f.pc = "done" /\ IsTransient(f.last_response)) =>
               /\ f.requests = f.max_retries + 1
               /\ Len(f.sleeps) = f.max_retries
               /\ f.sql_query = NoneStr

C12_Witness ==
    \E t \in DirectCalls :
        /\ task[t].pc = "done"
        /\ task[t].max_retries = DefaultMaxRetries
        /\ task[t].initial_backoff = DefaultInitialBackoff
        /\ IsTransient(task[t].last_response)
        /\ task[t].requests = 4
        /\ task[t].sleeps = <<5, 10, 20>>

\* the call of frame f has gone past the checks of llm.py 74-80
LlmEntered(f) == f.pc \notin {"off", "hq_start", "swap_connect", "swap_lookup", "swap_close",
                              "llm_enter"}

(***************************************************************************)
(* C13.  A call made without the API key, or with a schema file that is    *)
(* missing or empty, has returned None once past its opening checks; it    *)
(* has sent no request and has not slept.                                  *)
(***************************************************************************)
C13_ConfigurationFailure ==
    \A t \in DirectCalls :
        LET f == task[t] IN
        (/\ LlmEntered(f)
         /\ \/ AGENTPLATFORM_KEY = ""
            \/ f.schema_file \in {"missing", "empty"}) =>
            /\ f.pc = "done"
            /\ f.raised = "none"
            /\ f.sql_query = NoneStr
            /\ f.requests = 0
            /\ f.sleeps = <<>>

C13_Witness ==
    \E t \in DirectCalls :
        /\ task[t].pc = "done"
        /\ AGENTPLATFORM_KEY = "key"
        /\ task[t].schema_file = "missing"
        /\ task[t].max_retries = DefaultMaxRetries
        /\ task[t].sql_query = NoneStr
        /\ task[t].requests = 0

\* the lookups frame f has issued
Lookups(f) == SelectSeq(f.queries, LAMBDA q : q.conn = "lookup")

\* position k of text holds its first UUID-shaped token
FirstUuidAt(text, k) ==
    /\ k \in 1..Len(text)
    /\ text[k] \in UuidTokens
    /\ \A j \in 1..(k - 1) : text[j] \notin UuidTokens

(***************************************************************************)
(* C14.  The rewriter issues at most one lookup per message, and it is     *)
(* for the first UUID-shaped token of the message.  A later UUID-shaped    *)
(* token different from the first stands unchanged at its place in the     *)
(* text the rewriter returns.                                              *)
(***************************************************************************)
C14_OnlyFirstMatch ==
    \A t \in Handled :
        LET f == task[t] IN
        /\ Len(Lookups(f)) <= 1
        /\ \A n \in 1..Len(Lookups(f)) :
               \E k \in 1..Len(f.user_query) :
                   /\ FirstUuidAt(f.user_query, k)
                   /\ Lookups(f)[n].text = <<f.user_query[k]>>
        /\ SwapReturned(f) =>
               \A k, i \in 1..Len(f.user_query) :
                   (/\ FirstUuidAt(f.user_query, k)
                    /\ f.user_query[i] \in UuidTokens
                    /\ f.user_query[i] # f.user_query[k]) =>
                       f.modified_query[i] = f.user_query[i]

C14_Witness ==
    \E t \in Handled :
        /\ task[t].pc = "done"
        /\ task[t].user_query = <<"u1", "u2">>
        /\ videos["u1"] = "c1"
        /\ videos["u2"] = "c1"
        /\ task[t].modified_query = <<"c1", "u2">>
        /\ Len(Lookups(task[t])) = 1

\* the generated queries frame f has run
Execs(f) == SelectSeq(f.queries, LAMBDA q : q.conn = "exec")

(***************************************************************************)
(* C15.  A handler that ran the generated query and got None replies       *)
(* "no result"; one that could not open the execution connection replies   *)
(* "cannot connect" and has run nothing; one whose query yielded a value,  *)
(* 0 included, replies that value, which is neither message.  Each of the  *)
(* two messages is sent in its own case only.                              *)
(***************************************************************************)
C15_DataErrorVsConnectivity ==
    \A t \in Handled :
        LET f == task[t] IN
        f.pc = "done" =>
            /\ (Execs(f) # <<>> /\ f.result = NoneVal) <=> f.replies = <<"no_result">>
            /\ f.db_conn = NoneVal <=> f.replies = <<"no_connection">>
            /\ f.db_conn = NoneVal => Execs(f) = <<>>
            /\ (Execs(f) # <<>> /\ f.result # NoneVal) =>
                   /\ f.result \in ScalarValues
                   /\ f.replies = <<f.result>>
                   /\ f.result \notin {"no_result", "no_connection"}

C15_Witness ==
    \E t \in Handled :
        /\ task[t].pc = "done"
        /\ Len(Execs(task[t])) = 1
        /\ task[t].result = "0"
        /\ task[t].replies = <<"0">>

\* the translations handle_query does not execute (bot.py 99)
Unusable(sql) == sql = NoneStr \/ sql = <<>> \/ sql = ErrorToken

(***************************************************************************)
(* C17.  A handler runs at most one generated query.  It opens the         *)
(* execution connection and runs the query only after the rewriter and     *)
(* the translator have returned, after every lookup, and only with a       *)
(* translation that is neither None, nor empty, nor the sentinel ERROR;    *)
(* the query run is that translation.  After a translation that is None,   *)
(* empty or the sentinel, no execution connection is opened and no query   *)
(* is run, and the reply is "not understood".                              *)
(***************************************************************************)
C17_ExecutesOnceAfterTranslation ==
    \A t \in Handled :
        LET f == task[t] IN
        /\ Len(Execs(f)) <= 1
        /\ (f.db_conn # "unset" \/ Execs(f) # <<>>) =>
               /\ SwapReturned(f)
               /\ LlmReturned(f)
               /\ ~Unusable(f.sql_query)
        /\ Execs(f) # <<>> =>
               /\ f.db_conn = "conn"
               /\ Execs(f)[1].text = f.sql_query
               /\ f.queries[Len(f.queries)].conn = "exec"
        /\ (LlmReturned(f) /\ Unusable(f.sql_query)) =>
               /\ f.db_conn = "unset"
               /\ Execs(f) = <<>>
               /\ "exec" \notin f.open_conns
               /\ (f.pc = "done" /\ f.raised = "none") => f.replies = <<"not_understood">>

C17_Witness ==
    \E t \in Handled :
        /\ task[t].pc = "done"
        /\ IsCompletion(task[t].last_response)
        /\ task[t].sql_query = <<>>
        /\ Len(Lookups(task[t])) = 1
        /\ task[t].db_conn = "unset"
        /\ task[t].replies = <<"not_understood">>

\* a failure of the attempt that is not an HTTP status error: the request
\* raised a transport exception, or the answer lacks choices/message/content
IsOtherFailure(resp) ==
    \/ resp.exc # "none"
    \/ resp.exc = "none" /\ ~raises_for_status(resp.status) /\ resp.body # "completion"

(***************************************************************************)
(* C18.  A call whose latest attempt failed with a timeout, a connection   *)
(* failure or a response without the expected structure has returned None  *)
(* on that attempt: no sleep follows it, so its sleeps number one fewer    *)
(* than its requests, and the retries left are not used.                   *)
(***************************************************************************)
C18_OtherFailuresNotRetried ==
    \A t \in DirectCalls :
        LET f == task[t] IN
        (f.requests > 0 /\ IsOtherFailure(f.last_response)) =>
            /\ f.pc = "done"
            /\ f.raised = "none"
            /\ f.sql_query = NoneStr
            /\ f.requests = f.attempt + 1
            /\ Len(f.sleeps) = f.attempt

C18_Witness ==
    \E t \in DirectCalls :
        /\ task[t].pc = "done"
        /\ task[t].max_retries = DefaultMaxRetries
        /\ task[t].last_response.exc = "TimeoutException"
        /\ task[t].requests = 2
        /\ Len(task[t].sleeps) = 1
        /\ task[t].sql_query = NoneStr

\* what a handler alone computes from the responses frame f has received: the
\* rewritten text from the lookup, the translation from the last response of
\* the endpoint, the reply from these and from the execution
SoloModified(f) ==
    IF f.lookup = "ok" /\ truthy(fetch_creator(videos, f.entity_id_str))
    THEN replace(f.user_query, f.entity_id_str, fetch_creator(videos, f.entity_id_str))
    ELSE f.user_query

SoloSql(f) ==
    IF f.requests > 0 /\ IsCompletion(f.last_response)
    THEN Normalize(f.last_response.content)
    ELSE NoneStr

SoloReply(f) ==
    IF f.raised # "none" THEN "internal_error"
    ELSE IF Unusable(SoloSql(f)) THEN "not_understood"
    ELSE IF f.db_conn = NoneVal THEN "no_connection"
    ELSE IF f.result = NoneVal THEN "no_result"
    ELSE f.result

\* a step changes the frame of one handler and nothing else
OneFrameStep ==
    /\ \A t, u \in Tasks : (t # u /\ task'[t] # task[t]) => task'[u] = task[u]
    /\ videos' = videos
    /\ AGENTPLATFORM_KEY' = AGENTPLATFORM_KEY

(***************************************************************************)
(* C16.  With two messages handled concurrently, every step changes the    *)
(* frame of one handler only.  The attempt counter of each call counts     *)
(* its own sleeps and its delay is initial_backoff doubled once per own    *)
(* sleep, whatever the other call does.  The rewritten text, the           *)
(* translation and the reply of each message are those a handler alone     *)
(* computes from the responses this message received.                      *)
(***************************************************************************)
C16_NoSharedState ==
    /\ [][OneFrameStep]_vars
    /\ [](\A t \in Handled :
            LET f == task[t] IN
            /\ (InLoop(f) \/ f.requests > 0) =>
                   /\ f.max_retries = DefaultMaxRetries
                   /\ f.attempt = Len(f.sleeps)
                   /\ f.backoff = DefaultInitialBackoff * Pow2(Len(f.sleeps))
                   /\ f.requests = Len(f.sleeps) + (IF f.pc = "llm_post" THEN 0 ELSE 1)
            /\ SwapReturned(f) => f.modified_query = SoloModified(f)
            /\ (LlmReturned(f) /\ f.raised = "none") => f.sql_query = SoloSql(f)
            /\ f.pc = "done" => f.replies = <<SoloReply(f)>>)

C16_Witness ==
    /\ Handled = Tasks
    /\ task[1].pc = "llm_post"
    /\ task[1].attempt = 2
    /\ task[1].backoff = 20
    /\ task[2].pc = "llm_sleep"
    /\ task[2].attempt = 0
    /\ task[2].backoff = 5
    /\ task[2].requests = 1

====
